---- MODULE Spec2Model ----
(***************************************************************************)
(* Model of timoni's `delete` command (cmd/timoni/delete.go, runDeleteCmd) *)
(* and of the dry-run diff reporter (InstanceDryRunDiff).                  *)
(*                                                                         *)
(* Both functions are strictly sequential; each action below is one step   *)
(* of the function's control flow, and every call to an external           *)
(* collaborator (resource manager, instance storage, file system, dyff)    *)
(* is a nondeterministic choice over the results that call can return.     *)
(***************************************************************************)
EXTENDS Integers, Sequences, FiniteSets, TLC

(***************************************************************************)
(* Bounds of the model.                                                    *)
(***************************************************************************)
\* longest object list of an instance / longest desired list of a diff
MaxObjects == 3
\* longest list of stale objects handed to InstanceDryRunDiff
MaxStale == 2
\* rootArgs.timeout, in clock ticks
Timeout == 2
\* number of times the delete command is invoked on the same instance
MaxRuns == 2

(***************************************************************************)
(* Objects.  An object is identified by kind and name (all objects of the  *)
(* model live in one namespace); `force` says whether its metadata carries *)
(* the action.timoni.sh/force marker.                                      *)
(***************************************************************************)
Universe ==
    { [kind |-> "Namespace",  name |-> "a", force |-> FALSE],
      [kind |-> "Service",    name |-> "a", force |-> TRUE ],
      [kind |-> "Deployment", name |-> "a", force |-> FALSE],
      [kind |-> "Deployment", name |-> "b", force |-> TRUE ] }

\* placeholder object of log lines that are not about one object
NoObject == [kind |-> "", name |-> "", force |-> FALSE]

\* ssa's kind ordering: cluster definitions first, workloads last
KindRank(k) ==
    CASE k = "Namespace"  -> 1
      [] k = "Service"    -> 2
      [] k = "Deployment" -> 3
      [] OTHER            -> 4

NameRank(n) ==
    CASE n = "a" -> 1
      [] n = "b" -> 2
      [] OTHER   -> 3

\* ssa.SortableUnstructureds.Less: by kind order, ties broken by name
Less(a, b) ==
    \/ KindRank(a.kind) < KindRank(b.kind)
    \/ /\ KindRank(a.kind) = KindRank(b.kind)
       /\ NameRank(a.name) < NameRank(b.name)

(***************************************************************************)
(* Sequence helpers.                                                       *)
(***************************************************************************)
Range(s) == { s[i] : i \in 1..Len(s) }

Reverse(s) == [i \in 1..Len(s) |-> s[Len(s) + 1 - i]]

\* the lists without repetition, of length at most n, over the set S
RECURSIVE ListsOver(_, _)
ListsOver(S, n) ==
    IF n = 0 THEN { <<>> }
    ELSE LET shorter == ListsOver(S, n - 1)
         IN  shorter \cup { Append(l, x) : l \in shorter, x \in S }

DistinctLists(S, n) ==
    { l \in ListsOver(S, n) : Cardinality(Range(l)) = Len(l) }

\* Less as sort.Sort sees it: sort.Reverse(x).Less(i, j) is x.Less(j, i)
LessBy(a, b, reversed) == IF reversed THEN Less(b, a) ELSE Less(a, b)

\* insert x into the sorted list s, before the first element that x precedes
InsertSorted(x, s, reversed) ==
    LET after == { j \in 1..Len(s) : LessBy(x, s[j], reversed) }
        k == IF after = {} THEN Len(s)
             ELSE (CHOOSE j \in after : \A i \in after : j <= i) - 1
    IN  SubSeq(s, 1, k) \o <<x>> \o SubSeq(s, k + 1, Len(s))

\* sort.Sort, of the slice itself or wrapped in sort.Reverse (the keys of a
\* list are distinct, so every correct sort returns the same list)
SortBy(s, reversed) ==
    LET sorted[i \in 0..Len(s)] ==
            IF i = 0 THEN <<>> ELSE InsertSorted(s[i], sorted[i - 1], reversed)
    IN  sorted[Len(s)]

\* variant: the slice is left in the order it was passed in
SortObjects_Unsorted(s) == s

\* sort.Sort(ssa.SortableUnstructureds(objects))
SortObjects(s) == SortBy(s, FALSE)

\* variant: the sort without sort.Reverse
SortReverseObjects_NotReversed(s) == SortBy(s, FALSE)

\* sort.Sort(sort.Reverse(ssa.SortableUnstructureds(objects)))
SortReverseObjects(s) == SortBy(s, TRUE)

(***************************************************************************)
(* State.                                                                  *)
(***************************************************************************)
VARIABLES
    pc,             \* position in runDeleteCmd / InstanceDryRunDiff
    runs,           \* invocations of the delete command so far
    instRecord,     \* TRUE while the instance record exists in the storage
    stored,         \* the instance's objects, in the order ListObjects returns them
    live,           \* objects of the instance not yet deleted from the cluster
    nargs,          \* len(args)
    dryrun,         \* deleteArgs.dryrun
    wait,           \* deleteArgs.wait
    now,            \* ticks since context.WithTimeout at line 82
    objects,        \* the local slice `objects`
    idx,            \* index of the next element of the running range loop
    hasErrors,      \* the local hasErrors
    cs,             \* the ChangeSet cs: the changes sm.Delete returned
    deletedObjects, \* the local deletedObjects
    calls,          \* calls issued to the collaborators, in order
    log,            \* lines written to the logger, in order
    result,         \* how the function ended: "nil", an error, or "exit(1)"
    staleObjects,   \* InstanceDryRunDiff's staleObjects
    nsExists,       \* InstanceDryRunDiff's nsExists
    withDiff,       \* InstanceDryRunDiff's withDiff
    rendered,       \* objects whose dyff report was written to w, in order
    dryReport,      \* history: what the last completed dry-run deletion reported
    prevFailed,     \* history: the previous run ended in os.Exit(1)
    prevReport      \* history: summary of the previous call of InstanceDryRunDiff

vars == << pc, runs, instRecord, stored, live, nargs, dryrun, wait, now, objects,
           idx, hasErrors, cs, deletedObjects, calls, log, result,
           staleObjects, nsExists, withDiff, rendered, dryReport, prevFailed,
           prevReport >>

\* the per-object state of the cluster and the instance record
storeVars == << instRecord, stored, live >>
\* the command's flags and arguments
flagVars == << nargs, dryrun, wait >>
\* InstanceDryRunDiff's parameters and output
diffVars == << staleObjects, nsExists, withDiff, rendered, prevReport >>

\* a call to a collaborator: the operation, the objects passed, what it returned
Call(op, objs, res) == [op |-> op, objs |-> objs, res |-> res]

Line(level, obj, action, mode) ==
    [level |-> level, obj |-> obj, action |-> action, mode |-> mode]

Change(obj, action) == [obj |-> obj, action |-> action]

AboutObject(line) == line.obj # NoObject

\* the (object, action) outcomes a log reports, in order
Reported(l) ==
    LET lines == SelectSeq(l, AboutObject)
    IN  [i \in 1..Len(lines) |-> Change(lines[i].obj, lines[i].action)]

\* a call bound to ctx that starts after the deadline fails
Expired == now >= Timeout

(***************************************************************************)
(* runDeleteCmd.                                                           *)
(***************************************************************************)
InitDelete ==
    /\ pc = "idle"
    /\ runs = 0
    /\ instRecord = TRUE
    /\ stored \in DistinctLists(Universe, MaxObjects)
    /\ live = Range(stored)
    /\ nargs = 0
    /\ dryrun = FALSE
    /\ wait = TRUE
    /\ now = 0
    /\ objects = <<>>
    /\ idx = 1
    /\ hasErrors = FALSE
    /\ cs = <<>>
    /\ deletedObjects = <<>>
    /\ calls = <<>>
    /\ log = <<>>
    /\ result = ""
    /\ staleObjects = <<>>
    /\ nsExists = TRUE
    /\ withDiff = FALSE
    /\ rendered = <<>>
    /\ dryReport = [done |-> FALSE, run |-> 0, changes |-> <<>>]
    /\ prevFailed = FALSE
    /\ prevReport = [done |-> FALSE, unchanged |-> FALSE, details |-> 0,
                     changes |-> <<>>]

\* cobra runs RunE with the parsed flags and arguments
Invoke ==
    /\ pc \in {"idle", "done"}
    /\ runs < MaxRuns
    /\ runs' = runs + 1
    /\ nargs' \in {0, 1}
    /\ dryrun' \in BOOLEAN
    /\ wait' \in BOOLEAN
    /\ now' = 0
    /\ objects' = <<>>
    /\ idx' = 1
    /\ hasErrors' = FALSE
    /\ cs' = <<>>
    /\ deletedObjects' = <<>>
    /\ calls' = <<>>
    /\ log' = <<>>
    /\ result' = ""
    /\ pc' = "checkArgs"
    /\ prevFailed' = (result = "exit(1)")
    /\ UNCHANGED << storeVars, diffVars, dryReport >>

\* if len(args) < 1 { return fmt.Errorf("name is required") }
CheckArgs ==
    /\ pc = "checkArgs"
    /\ IF nargs < 1
       THEN /\ result' = "name is required"
            /\ pc' = "done"
       ELSE /\ result' = result
            /\ pc' = "newResourceManager"
    /\ UNCHANGED << runs, storeVars, flagVars, now, objects, idx, hasErrors, cs,
                    deletedObjects, calls, log, diffVars, dryReport,
                    prevFailed >>

\* sm, err := runtime.NewResourceManager(kubeconfigArgs); then the context
\* with the deadline is created
NewResourceManager ==
    /\ pc = "newResourceManager"
    /\ \E ok \in BOOLEAN :
          IF ok
          THEN /\ result' = result
               /\ pc' = "getInstance"
          ELSE /\ result' = "resource manager error"
               /\ pc' = "done"
    /\ UNCHANGED << runs, storeVars, flagVars, now, objects, idx, hasErrors, cs,
                    deletedObjects, calls, log, diffVars, dryReport,
                    prevFailed >>

\* variant: the error of iStorage.Get is not looked at
GetTarget_IgnoreError(res) == "listObjects"

\* if err != nil { return err } after iStorage.Get
GetTarget(res) == IF res = "ok" THEN "listObjects" ELSE "done"

\* inst, err := iStorage.Get(ctx, deleteArgs.name, namespace)
GetInstance ==
    /\ pc = "getInstance"
    /\ \E d \in 0..1, ok \in BOOLEAN :
          LET res == IF ok /\ instRecord /\ ~Expired THEN "ok" ELSE "error" IN
          /\ now' = IF Expired THEN now ELSE now + d
          /\ calls' = Append(calls, Call("Get", <<>>, res))
          /\ pc' = GetTarget(res)
          /\ result' = IF pc' = "done" THEN "instance get error" ELSE result
    /\ UNCHANGED << runs, storeVars, flagVars, objects, idx, hasErrors, cs,
                    deletedObjects, log, diffVars, dryReport,
                    prevFailed >>

\* objects, err := iManager.ListObjects()
ListObjects ==
    /\ pc = "listObjects"
    /\ \E ok \in BOOLEAN :
          IF ok
          THEN /\ objects' = stored
               /\ result' = result
               /\ pc' = "sort"
          ELSE /\ objects' = objects
               /\ result' = "list objects error"
               /\ pc' = "done"
    /\ UNCHANGED << runs, storeVars, flagVars, now, idx, hasErrors, cs,
                    deletedObjects, calls, log, diffVars, dryReport,
                    prevFailed >>

\* variant: the dry-run flag is not looked at
BranchTarget_IgnoreDryRun(d) == "deleteLoop"

\* if deleteArgs.dryrun { the dry-run loop; return nil }, else the deletion loop
BranchTarget(d) == IF d THEN "dryRunLoop" ELSE "deleteLoop"

\* sort.Sort(sort.Reverse(...)); if deleteArgs.dryrun ...; the real branch
\* logs "deleting %v resource(s)..." and creates the change set
SortAndBranch ==
    /\ pc = "sort"
    /\ objects' = SortReverseObjects(objects)
    /\ idx' = 1
    /\ pc' = BranchTarget(dryrun)
    /\ log' = IF pc' = "dryRunLoop"
              THEN log
              ELSE Append(log, Line("info", NoObject, "deleting resource(s)...", ""))
    /\ hasErrors' = FALSE
    /\ cs' = <<>>
    /\ UNCHANGED << runs, storeVars, flagVars, now, deletedObjects, calls, result,
                    diffVars, dryReport,
                    prevFailed >>

\* logger.ColorizeJoin(object, ssa.DeletedAction, logger.DryRunClient)
DryRunLine(object) == Line("info", object, "Deleted", "dry-run client")

\* for _, object := range objects { log.Info(...) }
DryRunReport ==
    /\ pc = "dryRunLoop"
    /\ idx <= Len(objects)
    /\ log' = Append(log, DryRunLine(objects[idx]))
    /\ idx' = idx + 1
    /\ UNCHANGED << pc, runs, storeVars, flagVars, now, objects, hasErrors, cs,
                    deletedObjects, calls, result, diffVars, dryReport,
                    prevFailed >>

\* return nil, after the dry-run loop
DryRunReturn ==
    /\ pc = "dryRunLoop"
    /\ idx > Len(objects)
    /\ result' = "nil"
    /\ pc' = "done"
    /\ dryReport' = [done |-> TRUE, run |-> runs, changes |-> Reported(log)]
    /\ prevFailed' = prevFailed
    /\ UNCHANGED << runs, storeVars, flagVars, now, objects, idx, hasErrors, cs,
                    deletedObjects, calls, log, diffVars >>

\* the outcomes of sm.Delete: an error, or a change whose action is Deleted,
\* or a change with another action (the object was left in place)
DeleteOutcomes == {"Deleted", "Unchanged", "error"}

\* variant: the change sm.Delete returned is logged but not added to cs
DeleteStep_ForgetsChange(outcome) ==
    IF outcome = "error"
    THEN [ line      |-> Line("error", NoObject, "deletion failed", ""),
           hasErrors |-> TRUE,
           cs        |-> cs,
           idx       |-> idx + 1 ]
    ELSE [ line      |-> Line("info", objects[idx], outcome, ""),
           hasErrors |-> hasErrors,
           cs        |-> cs,
           idx       |-> idx + 1 ]

\* variant: an error of sm.Delete leaves the loop (break instead of continue)
DeleteStep_BreakOnError(outcome) ==
    IF outcome = "error"
    THEN [ line      |-> Line("error", NoObject, "deletion failed", ""),
           hasErrors |-> TRUE,
           cs        |-> cs,
           idx       |-> Len(objects) + 1 ]
    ELSE [ line      |-> Line("info", objects[idx], outcome, ""),
           hasErrors |-> hasErrors,
           cs        |-> Append(cs, Change(objects[idx], outcome)),
           idx       |-> idx + 1 ]

\* variant: an error of sm.Delete discards the changes collected so far
DeleteStep_DropsChangesOnError(outcome) ==
    IF outcome = "error"
    THEN [ line      |-> Line("error", NoObject, "deletion failed", ""),
           hasErrors |-> TRUE,
           cs        |-> <<>>,
           idx       |-> idx + 1 ]
    ELSE [ line      |-> Line("info", objects[idx], outcome, ""),
           hasErrors |-> hasErrors,
           cs        |-> Append(cs, Change(objects[idx], outcome)),
           idx       |-> idx + 1 ]

\* the body of the deletion loop for objects[idx], given what sm.Delete
\* returned: on an error log it, set hasErrors and continue; otherwise add the
\* change to cs and log it
DeleteStep(outcome) ==
    IF outcome = "error"
    THEN [ line      |-> Line("error", NoObject, "deletion failed", ""),
           hasErrors |-> TRUE,
           cs        |-> cs,
           idx       |-> idx + 1 ]
    ELSE [ line      |-> Line("info", objects[idx], outcome, ""),
           hasErrors |-> hasErrors,
           cs        |-> Append(cs, Change(objects[idx], outcome)),
           idx       |-> idx + 1 ]

\* one iteration of the deletion loop
DeleteObject ==
    /\ pc = "deleteLoop"
    /\ idx <= Len(objects)
    /\ \E d \in 0..1, outcome \in DeleteOutcomes :
          /\ Expired => outcome = "error"
          /\ now' = IF Expired THEN now ELSE now + d
          /\ calls' = Append(calls, Call("Delete", <<objects[idx]>>, outcome))
          /\ live' = IF outcome = "Deleted" THEN live \ {objects[idx]} ELSE live
          /\ log' = Append(log, DeleteStep(outcome).line)
          /\ hasErrors' = DeleteStep(outcome).hasErrors
          /\ cs' = DeleteStep(outcome).cs
          /\ idx' = DeleteStep(outcome).idx
    /\ UNCHANGED << pc, runs, instRecord, stored, flagVars, objects, deletedObjects,
                    result, diffVars, dryReport,
                    prevFailed >>

\* variant: hasErrors is not looked at after the loop
CheckErrorsTarget_IgnoreErrors(h) == "deleteInstance"

\* variant: the instance record is not deleted on the success path
CheckErrorsTarget_SkipInstanceDelete(h) == IF h THEN "done" ELSE "selectDeleted"

\* where the function goes after the loop: os.Exit(1) if hasErrors, else on to
\* iStorage.Delete
CheckErrorsTarget(h) == IF h THEN "done" ELSE "deleteInstance"

\* if hasErrors { os.Exit(1) }
CheckErrors ==
    /\ pc = "deleteLoop"
    /\ idx > Len(objects)
    /\ pc' = CheckErrorsTarget(hasErrors)
    /\ result' = IF pc' = "done" THEN "exit(1)" ELSE result
    /\ UNCHANGED << runs, storeVars, flagVars, now, objects, idx, hasErrors, cs,
                    deletedObjects, calls, log, diffVars, dryReport,
                    prevFailed >>

\* variant: the error of iStorage.Delete is not looked at
InstanceDeleteTarget_IgnoreError(res) == "selectDeleted"

\* if err := iStorage.Delete(...); err != nil { return err }
InstanceDeleteTarget(res) == IF res = "ok" THEN "selectDeleted" ELSE "done"

\* if err := iStorage.Delete(ctx, inst.Name, inst.Namespace); err != nil { return err }
DeleteInstance ==
    /\ pc = "deleteInstance"
    /\ \E d \in 0..1, ok \in BOOLEAN :
          LET res == IF ok /\ ~Expired THEN "ok" ELSE "error" IN
          /\ now' = IF Expired THEN now ELSE now + d
          /\ calls' = Append(calls, Call("InstanceDelete", <<>>, res))
          /\ instRecord' = IF res = "ok" THEN FALSE ELSE instRecord
          /\ pc' = InstanceDeleteTarget(res)
          /\ result' = IF pc' = "done" THEN "instance delete error" ELSE result
    /\ UNCHANGED << runs, stored, live, flagVars, objects, idx, hasErrors, cs,
                    deletedObjects, log, diffVars, dryReport,
                    prevFailed >>

IsDeleted(change) == change.action = "Deleted"

\* variant: the objects of all changes are selected, whatever their action
SelectObjectsFromSet_AllChanges(set) == [i \in 1..Len(set) |-> set[i].obj]

\* runtime.SelectObjectsFromSet(cs, ssa.DeletedAction)
SelectObjectsFromSet(set) ==
    LET picked == SelectSeq(set, IsDeleted)
    IN  [i \in 1..Len(picked) |-> picked[i].obj]

\* deletedObjects := ...; if deleteArgs.wait && len(deletedObjects) > 0 {...}; return nil
SelectDeleted ==
    /\ pc = "selectDeleted"
    /\ deletedObjects' = SelectObjectsFromSet(cs)
    /\ IF wait /\ Len(deletedObjects') > 0
       THEN /\ pc' = "wait"
            /\ result' = result
       ELSE /\ pc' = "done"
            /\ result' = "nil"
    /\ UNCHANGED << runs, storeVars, flagVars, now, objects, idx, hasErrors, cs,
                    calls, log, diffVars, dryReport,
                    prevFailed >>

\* variant: the wait keeps a timeout longer than rootArgs.timeout
WaitLimit_Longer == Timeout + 1

\* waitOpts.Timeout = rootArgs.timeout
WaitLimit == Timeout

\* variant: the error of the wait is dropped
WaitResult_DropsError(res) == "nil"

\* if err != nil { return err } after the wait; return nil at the end
WaitResult(res) == IF res = "ok" THEN "nil" ELSE "wait timeout"

\* err = sm.WaitForTermination(deletedObjects, waitOpts): the wait polls for
\* at most its own timeout, counted from its start, and fails when the
\* objects are still there at that point
WaitForTermination ==
    /\ pc = "wait"
    /\ \E d \in 0..WaitLimit :
          LET res == IF d < WaitLimit THEN "ok" ELSE "timeout" IN
          /\ now' = now + d
          /\ calls' = Append(calls, Call("WaitForTermination", deletedObjects, res))
          /\ result' = WaitResult(res)
          /\ log' = IF result' = "nil"
                    THEN Append(log, Line("info", NoObject,
                                          "all resources have been deleted", ""))
                    ELSE log
    /\ pc' = "done"
    /\ UNCHANGED << runs, storeVars, flagVars, objects, idx, hasErrors, cs,
                    deletedObjects, diffVars, dryReport,
                    prevFailed >>

Next ==
    \/ Invoke
    \/ CheckArgs
    \/ NewResourceManager
    \/ GetInstance
    \/ ListObjects
    \/ SortAndBranch
    \/ DryRunReport
    \/ DryRunReturn
    \/ DeleteObject
    \/ CheckErrors
    \/ DeleteInstance
    \/ SelectDeleted
    \/ WaitForTermination

Spec == InitDelete /\ [][Next]_vars

(***************************************************************************)
(* InstanceDryRunDiff.                                                     *)
(***************************************************************************)
InitDiff ==
    /\ pc = "diffEntry"
    /\ objects \in DistinctLists(Universe, MaxObjects)
    /\ staleObjects \in DistinctLists(Universe \ Range(objects), MaxStale)
    /\ nsExists \in BOOLEAN
    /\ withDiff \in BOOLEAN
    /\ rendered = <<>>
    /\ idx = 1
    /\ calls = <<>>
    /\ log = <<>>
    /\ result = ""
    /\ runs = 0
    /\ instRecord = TRUE
    /\ stored = <<>>
    /\ live = Range(objects) \cup Range(staleObjects)
    /\ nargs = 0
    /\ dryrun = FALSE
    /\ wait = TRUE
    /\ now = 0
    /\ hasErrors = FALSE
    /\ cs = <<>>
    /\ deletedObjects = <<>>
    /\ dryReport = [done |-> FALSE, run |-> 0, changes |-> <<>>]
    /\ prevFailed = FALSE
    /\ prevReport = [done |-> FALSE, unchanged |-> FALSE, details |-> 0,
                     changes |-> <<>>]

\* the variables InstanceDryRunDiff never touches
deleteOnlyVars == << runs, storeVars, flagVars, now, hasErrors, cs, deletedObjects,
                     dryReport, prevFailed >>

\* sort.Sort(ssa.SortableUnstructureds(objects))
DiffSort ==
    /\ pc = "diffEntry"
    /\ objects' = SortObjects(objects)
    /\ idx' = 1
    /\ pc' = "diffLoop"
    /\ UNCHANGED << deleteOnlyVars, calls, log, result, diffVars >>

\* the results of rm.Diff: a change with one of three actions, an error that
\* ssaerr.IsImmutableError recognises, or any other error
DiffOutcomes == {"Created", "Configured", "Unchanged", "immutable error", "error"}

\* the results of writing live.yaml and merged.yaml and of DiffYAML
RenderOutcomes == {"ok", "live write error", "merged write error", "dyff error"}

\* ssautil.AnyInMetadata(r, {apiv1.ForceAction: apiv1.EnabledValue})
AnyInMetadata(r) == r.force

\* variant: the namespace test is inverted
NamespaceMissing_Inverted == nsExists

\* if !nsExists { log Created; continue }
NamespaceMissing == ~nsExists

IsDiffError(outcome) == outcome \in {"immutable error", "error"}

\* variant: the force marker is not looked at on an immutable-field error
DiffStep_IgnoresForce(r, outcome, render) ==
    IF IsDiffError(outcome)
    THEN [ line   |-> IF outcome = "immutable error"
                      THEN Line("error", r, "immutable", "server dry run")
                      ELSE Line("error", r, "", ""),
           detail |-> FALSE,
           err    |-> "" ]
    ELSE [ line   |-> Line("info", r, outcome, "server dry run"),
           detail |-> withDiff /\ outcome = "Configured" /\ render = "ok",
           err    |-> IF withDiff /\ outcome = "Configured" /\ render # "ok"
                      THEN render ELSE "" ]

\* variant: an error of rm.Diff other than an immutable-field error is
\* returned instead of logged
DiffStep_ReturnsDiffError(r, outcome, render) ==
    IF IsDiffError(outcome)
    THEN [ line   |-> IF outcome = "immutable error"
                      THEN IF AnyInMetadata(r)
                           THEN Line("info", r, "Created", "server dry run")
                           ELSE Line("error", r, "immutable", "server dry run")
                      ELSE Line("error", r, "", ""),
           detail |-> FALSE,
           err    |-> IF outcome = "error" THEN "diff error" ELSE "" ]
    ELSE [ line   |-> Line("info", r, outcome, "server dry run"),
           detail |-> withDiff /\ outcome = "Configured" /\ render = "ok",
           err    |-> IF withDiff /\ outcome = "Configured" /\ render # "ok"
                      THEN render ELSE "" ]

\* variant: the detailed diff is rendered whatever the action of the change
DiffStep_RendersAnyAction(r, outcome, render) ==
    IF IsDiffError(outcome)
    THEN [ line   |-> IF outcome = "immutable error"
                      THEN IF AnyInMetadata(r)
                           THEN Line("info", r, "Created", "server dry run")
                           ELSE Line("error", r, "immutable", "server dry run")
                      ELSE Line("error", r, "", ""),
           detail |-> FALSE,
           err    |-> "" ]
    ELSE [ line   |-> Line("info", r, outcome, "server dry run"),
           detail |-> withDiff /\ render = "ok",
           err    |-> IF withDiff /\ render # "ok" THEN render ELSE "" ]

\* the body of the loop for r once rm.Diff has returned `outcome`, `render`
\* being what writing the two files and DiffYAML would return:
\*   line   the line logged for r
\*   detail TRUE if the dyff report of r is written to w
\*   err    the error the function returns from this iteration, "" to go on
DiffStep(r, outcome, render) ==
    IF IsDiffError(outcome)
    THEN [ line   |-> IF outcome = "immutable error"
                      THEN IF AnyInMetadata(r)
                           THEN Line("info", r, "Created", "server dry run")
                           ELSE Line("error", r, "immutable", "server dry run")
                      ELSE Line("error", r, "", ""),
           detail |-> FALSE,
           err    |-> "" ]
    ELSE [ line   |-> Line("info", r, outcome, "server dry run"),
           detail |-> withDiff /\ outcome = "Configured" /\ render = "ok",
           err    |-> IF withDiff /\ outcome = "Configured" /\ render # "ok"
                      THEN render ELSE "" ]

\* one iteration of `for _, r := range objects`
DiffObject ==
    /\ pc = "diffLoop"
    /\ idx <= Len(objects)
    /\ LET r == objects[idx] IN
       IF NamespaceMissing
       THEN /\ log' = Append(log, Line("info", r, "Created", "server dry run"))
            /\ idx' = idx + 1
            /\ UNCHANGED << pc, calls, rendered, result >>
       ELSE \E outcome \in DiffOutcomes, render \in RenderOutcomes :
               LET step == DiffStep(r, outcome, render) IN
               /\ calls' = Append(calls, Call("Diff", <<r>>, outcome))
               /\ log' = Append(log, step.line)
               /\ rendered' = IF step.detail THEN Append(rendered, r) ELSE rendered
               /\ IF step.err = ""
                  THEN /\ idx' = idx + 1
                       /\ UNCHANGED << pc, result >>
                  ELSE /\ result' = step.err
                       /\ pc' = "diffDone"
                       /\ idx' = idx
    /\ UNCHANGED << deleteOnlyVars, objects, staleObjects, nsExists, withDiff,
                    prevReport >>

\* the loop over the desired objects is over; the loop over staleObjects starts
DiffLoopEnd ==
    /\ pc = "diffLoop"
    /\ idx > Len(objects)
    /\ idx' = 1
    /\ pc' = "staleLoop"
    /\ UNCHANGED << deleteOnlyVars, objects, calls, log, result, diffVars >>

\* for _, r := range staleObjects { log.Info(ColorizeJoin(r, DeletedAction, DryRunServer)) }
StaleReport ==
    /\ pc = "staleLoop"
    /\ idx <= Len(staleObjects)
    /\ log' = Append(log, Line("info", staleObjects[idx], "Deleted", "server dry run"))
    /\ idx' = idx + 1
    /\ UNCHANGED << pc, deleteOnlyVars, objects, calls, result, diffVars >>

\* return nil
DiffReturn ==
    /\ pc = "staleLoop"
    /\ idx > Len(staleObjects)
    /\ result' = "nil"
    /\ pc' = "diffDone"
    /\ UNCHANGED << deleteOnlyVars, objects, idx, calls, log, diffVars >>

\* every desired object has a line in l, with action Unchanged
AllUnchanged(l) ==
    /\ Len(l) >= Len(objects)
    /\ \A k \in 1..Len(objects) : l[k].obj = objects[k] /\ l[k].action = "Unchanged"

\* the caller runs InstanceDryRunDiff a second time with the same arguments
\* (the slice of desired objects as the first call left it).  Of the first
\* call the history keeps whether it classified every desired object
\* Unchanged, how many detailed diffs it wrote and, for an all-Unchanged
\* call, the outcomes it logged.
DiffAgain ==
    /\ pc = "diffDone"
    /\ ~prevReport.done
    /\ prevReport' = [done      |-> TRUE,
                      unchanged |-> AllUnchanged(log),
                      details   |-> Len(rendered),
                      changes   |-> IF AllUnchanged(log) THEN Reported(log) ELSE <<>>]
    /\ rendered' = <<>>
    /\ idx' = 1
    /\ calls' = <<>>
    /\ log' = <<>>
    /\ result' = ""
    /\ pc' = "diffEntry"
    /\ UNCHANGED << deleteOnlyVars, objects, staleObjects, nsExists, withDiff >>

NextDiff ==
    \/ DiffAgain
    \/ DiffSort
    \/ DiffObject
    \/ DiffLoopEnd
    \/ StaleReport
    \/ DiffReturn

SpecDiff == InitDiff /\ [][NextDiff]_vars

(***************************************************************************)
(* Properties of runDeleteCmd (checked under Spec).                        *)
(***************************************************************************)
IsDeleteCall(c) == c.op = "Delete"

\* the calls to sm.Delete of the current run, in order
DeleteCalls == SelectSeq(calls, IsDeleteCall)

\* the objects those calls were issued for, in order
DeleteCallObjects == [i \in 1..Len(DeleteCalls) |-> DeleteCalls[i].objs[1]]

CountCalls(op) == Cardinality({ i \in 1..Len(calls) : calls[i].op = op })

DeleteCallsTo(o) ==
    Cardinality({ i \in 1..Len(calls) : calls[i].op = "Delete" /\ calls[i].objs = <<o>> })

SomeDeleteFailed == \E i \in 1..Len(DeleteCalls) : DeleteCalls[i].res = "error"

SomeDeleteDeleted == \E i \in 1..Len(DeleteCalls) : DeleteCalls[i].res = "Deleted"

\* a real (not dry-run) deletion whose loop over the objects has ended
LoopFinished ==
    /\ ~dryrun
    /\ \/ pc = "deleteLoop" /\ idx > Len(objects)
       \/ pc \in {"deleteInstance", "selectDeleted", "wait"}
       \/ /\ pc = "done"
          /\ result \in {"exit(1)", "instance delete error", "wait timeout", "nil"}

\* the list is in ascending canonical order
IsAscending(s) == \A i \in 1..(Len(s) - 1) : Less(s[i], s[i + 1])

\* C1 (as stated): once the deletion loop of a real run has ended, the delete
\* calls were issued in exactly the reverse of the order in which ListObjects
\* returned the instance's objects.
C1_DeleteCallsReverseStoredOrder ==
    LoopFinished => DeleteCallObjects = Reverse(stored)

\* C1 (amended): the delete calls of a real run are issued in strictly
\* descending canonical order (each object sorts before the one deleted just
\* before it); when the loop has ended there was one call for each object of
\* the instance; and the calls are the exact reverse of the stored list
\* whenever the stored list is in ascending canonical order.
C1_DeleteCallsDescendCanonicalOrder ==
    LET d == DeleteCallObjects IN
    /\ \A i, j \in 1..Len(d) : i < j => Less(d[j], d[i])
    /\ LoopFinished => Len(d) = Len(stored) /\ Range(d) = Range(stored)
    /\ LoopFinished /\ IsAscending(stored) => d = Reverse(stored)

C1_Witness ==
    /\ LoopFinished
    /\ Len(stored) >= 3
    /\ ~IsAscending(stored)
    /\ DeleteCallObjects # Reverse(stored)
    /\ DeleteCallObjects = Reverse(SortObjects(stored))

\* C2: in a real run no object ever receives a second delete call, the number
\* of calls issued grows by one per loop iteration whatever the earlier calls
\* returned, and when the loop has ended every object of the instance has
\* received exactly one delete call, whichever calls failed.
C2_EveryObjectGetsOneDeleteCall ==
    /\ \A o \in Universe : DeleteCallsTo(o) <= 1
    /\ pc = "deleteLoop" => Len(DeleteCalls) = idx - 1
    /\ LoopFinished => \A o \in Range(stored) : DeleteCallsTo(o) = 1

C2_Witness ==
    /\ LoopFinished
    /\ Len(stored) >= 3
    /\ DeleteCalls[1].res = "Deleted"
    /\ DeleteCalls[2].res = "error"
    /\ DeleteCalls[3].res = "Deleted"

\* C3: if a delete call of the run has failed, the instance record delete and
\* the termination wait are never called, the instance record still exists,
\* and the run can only end in os.Exit(1), with the wait flag on or off.
C3_FailureGatesInstanceDeleteAndWait ==
    SomeDeleteFailed =>
        /\ CountCalls("InstanceDelete") = 0
        /\ CountCalls("WaitForTermination") = 0
        /\ instRecord
        /\ pc \in {"deleteLoop", "done"}
        /\ pc = "done" => result = "exit(1)"

C3_Witness ==
    /\ pc = "done"
    /\ wait
    /\ SomeDeleteFailed
    /\ SomeDeleteDeleted
    /\ result = "exit(1)"

\* C4: the instance record delete is called at most once per run; it comes
\* after every per-object delete call (all of which have been issued by
\* then) and before any termination wait, and a wait never happens without
\* it; and a real run whose delete calls all succeeded has called it exactly
\* once as soon as it has passed that step.
C4_InstanceDeleteOnceAfterDeletesBeforeWait ==
    /\ CountCalls("InstanceDelete") <= 1
    /\ \A i \in 1..Len(calls) :
          calls[i].op = "InstanceDelete" =>
              /\ \A j \in 1..Len(calls) : calls[j].op = "Delete" => j < i
              /\ \A j \in 1..Len(calls) : calls[j].op = "WaitForTermination" => i < j
              /\ Len(DeleteCalls) = Len(stored)
    /\ CountCalls("WaitForTermination") > 0 => CountCalls("InstanceDelete") = 1
    /\ (LoopFinished /\ ~SomeDeleteFailed /\ pc \in {"selectDeleted", "wait", "done"})
          => CountCalls("InstanceDelete") = 1

C4_Witness ==
    /\ pc = "done"
    /\ result = "nil"
    /\ ~dryrun
    /\ Len(stored) >= 2
    /\ ~SomeDeleteFailed
    /\ CountCalls("InstanceDelete") = 1
    /\ CountCalls("WaitForTermination") = 1

\* C5 (as stated): a real run that has issued every delete attempt and has
\* ended has deleted the instance record whatever the attempts returned, and
\* has ended in failure if one of them failed.
C5_InstanceDeletedRegardlessOfOutcome ==
    (LoopFinished /\ pc = "done") =>
        /\ CountCalls("InstanceDelete") = 1
        /\ SomeDeleteFailed => result # "nil"

\* C5 (amended): a real run that has issued every delete attempt and has
\* ended has called the instance record delete exactly when no attempt
\* failed; if an attempt failed the record is left in place and the run ended
\* in os.Exit(1); and the record delete is never called before every attempt
\* has been issued.
C5_InstanceDeletedIffNoDeleteFailed ==
    /\ (LoopFinished /\ pc = "done") =>
          /\ CountCalls("InstanceDelete") = 1 <=> ~SomeDeleteFailed
          /\ SomeDeleteFailed => result = "exit(1)" /\ instRecord
    /\ CountCalls("InstanceDelete") > 0 => Len(DeleteCalls) = Len(stored)

C5_Witness ==
    /\ LoopFinished
    /\ pc = "done"
    /\ ~wait
    /\ Len(stored) >= 2
    /\ SomeDeleteFailed
    /\ SomeDeleteDeleted
    /\ CountCalls("InstanceDelete") = 0

\* the calls that change the cluster or the instance storage, or wait on them
MutatingCalls ==
    CountCalls("Delete") + CountCalls("InstanceDelete") + CountCalls("WaitForTermination")

\* the objects of the instance in deletion order, each reported as Deleted
AllReportedDeleted ==
    LET d == Reverse(SortObjects(stored))
    IN  [i \in 1..Len(d) |-> Change(d[i], "Deleted")]

\* what holds in every state of a dry-run deletion
DryRunStateOk ==
    (runs > 0 /\ dryrun) =>
        /\ MutatingCalls = 0
        /\ cs = <<>>
        /\ pc = "dryRunLoop" =>
              /\ Len(log) = idx - 1
              /\ Reported(log) = SubSeq(AllReportedDeleted, 1, idx - 1)
        /\ (pc = "done" /\ result = "nil") =>
              /\ Len(log) = Len(stored)
              /\ Reported(log) = AllReportedDeleted

\* what holds of every step of a dry-run deletion
DryRunStepOk ==
    (runs' > 0 /\ dryrun') =>
        /\ instRecord' = instRecord
        /\ live' = live
        /\ stored' = stored
        /\ pc = "dryRunLoop" => pc' = "dryRunLoop" \/ (pc' = "done" /\ result' = "nil")

RealRunAfterDryRun ==
    /\ LoopFinished
    /\ dryReport.done
    /\ dryReport.run = runs - 1

AllDeleteCallsDeleted == \A i \in 1..Len(DeleteCalls) : DeleteCalls[i].res = "Deleted"

InDiff == pc \in {"diffLoop", "staleLoop", "diffDone"}

LinesAbout(r) == { k \in 1..Len(log) : log[k].obj = r }

\* C8: with the namespace existing, the i-th call to Diff and the i-th log
\* line are about the same object; if that call failed with an immutable-field
\* error, the line is an info line with action Created when the object carries
\* the force marker and an error line with action immutable when it does not,
\* and it is the only line about that object.
C8_ImmutableErrorClassified ==
    (InDiff /\ nsExists) =>
        \A i \in 1..Len(calls) :
            calls[i].res = "immutable error" =>
                LET r == calls[i].objs[1] IN
                /\ i <= Len(log)
                /\ log[i].obj = r
                /\ LinesAbout(r) = {i}
                /\ log[i].action # "Configured"
                /\ IF r.force
                   THEN log[i].level = "info" /\ log[i].action = "Created"
                   ELSE log[i].level = "error" /\ log[i].action = "immutable"

C8_Witness ==
    /\ pc = "diffDone"
    /\ nsExists
    /\ result = "nil"
    /\ \E i, j \in 1..Len(calls) :
          /\ calls[i].res = "immutable error"
          /\ calls[j].res = "immutable error"
          /\ calls[i].objs[1].force
          /\ ~calls[j].objs[1].force
          /\ log[i].action = "Created"
          /\ log[j].action = "immutable"

\* C9: when the namespace does not exist no call is ever issued, the line
\* logged for each desired object, in order, is an info line with action
\* Created, every desired object has its line once the loop is over, nothing
\* is rendered, and the function returns nil.
C9_MissingNamespaceAllCreatedNoDiff ==
    (InDiff /\ ~nsExists) =>
        /\ calls = <<>>
        /\ rendered = <<>>
        /\ pc = "diffLoop" => Len(log) = idx - 1
        /\ pc \in {"staleLoop", "diffDone"} => Len(log) >= Len(objects)
        /\ \A i \in 1..Len(objects) :
              i <= Len(log) => log[i] = Line("info", objects[i], "Created", "server dry run")
        /\ pc = "diffDone" => result = "nil"

C9_Witness ==
    /\ pc = "diffDone"
    /\ ~nsExists
    /\ withDiff
    /\ Len(objects) >= 3
    /\ Len(staleObjects) >= 1
    /\ Len(log) = Len(objects) + Len(staleObjects)

SomeDiffFailed == \E i \in 1..Len(calls) : IsDiffError(calls[i].res)

StaleLine(r) == Line("info", r, "Deleted", "server dry run")

\* the lines of the log after those of the desired objects
StaleLines == SubSeq(log, Len(objects) + 1, Len(log))

InstanceDeleteOk ==
    \E i \in 1..Len(calls) : calls[i].op = "InstanceDelete" /\ calls[i].res = "ok"

\* the objects whose delete call of this run returned a Deleted change
DeletedByCalls ==
    { DeleteCalls[i].objs[1] : i \in { k \in 1..Len(DeleteCalls) : DeleteCalls[k].res = "Deleted" } }

\* the objects that have a Deleted change in cs
DeletedInChangeSet == { cs[k].obj : k \in { j \in 1..Len(cs) : cs[j].action = "Deleted" } }

\* everything the termination wait depends on
WaitDue == ~SomeDeleteFailed /\ InstanceDeleteOk /\ wait /\ SomeDeleteDeleted

\* C12: the termination wait is called at most once; when it is called the
\* run is a real run with waiting enabled, no delete call failed, the
\* instance record delete succeeded and some object has a Deleted change, and
\* the objects passed to the wait are, without repetition, exactly the
\* objects with a Deleted change in cs (those whose delete call returned
\* Deleted); and a real run that has ended with all of that true has called
\* the wait.
C12_WaitIffCleanDeleteAndSomethingDeleted ==
    /\ CountCalls("WaitForTermination") <= 1
    /\ \A i \in 1..Len(calls) :
          calls[i].op = "WaitForTermination" =>
              /\ ~dryrun
              /\ WaitDue
              /\ Range(calls[i].objs) = DeletedInChangeSet
              /\ Range(calls[i].objs) = DeletedByCalls
              /\ Len(calls[i].objs) = Cardinality(DeletedByCalls)
    /\ (LoopFinished /\ pc = "done" /\ WaitDue) => CountCalls("WaitForTermination") = 1

C12_Witness ==
    /\ pc = "done"
    /\ Len(stored) >= 3
    /\ CountCalls("WaitForTermination") = 1
    /\ Cardinality(DeletedByCalls) = 2
    /\ \E i \in 1..Len(DeleteCalls) : DeleteCalls[i].res = "Unchanged"

LastCall == calls[Len(calls)]

WaitTimedOut ==
    \E i \in 1..Len(calls) :
        calls[i].op = "WaitForTermination" /\ calls[i].res = "timeout"

\* what holds once the termination wait has timed out
WaitTimeoutStateOk ==
    /\ WaitTimedOut => pc = "done" /\ result = "wait timeout"
    /\ (pc = "done" /\ result = "wait timeout") =>
          /\ LastCall.op = "WaitForTermination"
          /\ LastCall.res = "timeout"
          /\ ~instRecord
          /\ DeletedByCalls # {}
          /\ DeletedByCalls \cap live = {}
          /\ Range(LastCall.objs) = DeletedByCalls
    /\ \A i \in 1..Len(calls) :
          calls[i].op \in {"Get", "Delete", "InstanceDelete", "WaitForTermination"}

\* no step brings back a deleted object or a deleted instance record
NothingRecreated ==
    /\ live' \subseteq live
    /\ ~instRecord => ~instRecord'

\* C13: when the termination wait returns a timeout error the command ends
\* with that error; the instance record is absent and the objects whose
\* delete call returned Deleted are gone from the cluster; the only calls the
\* command ever issues are Get, Delete, InstanceDelete and WaitForTermination
\* (none creates or applies anything); and no step of the command, in this run
\* or a later one, brings back a deleted object or the instance record.
C13_WaitTimeoutFailsWithoutUndo ==
    [] WaitTimeoutStateOk /\ [][NothingRecreated]_vars

C13_Witness ==
    /\ pc = "done"
    /\ result = "wait timeout"
    /\ Len(stored) >= 2
    /\ live = {}
    /\ ~instRecord
    /\ now > Timeout

\* the errors returned before the objects are sorted
PreconditionErrors ==
    {"name is required", "resource manager error", "instance get error", "list objects error"}

\* C14: a run that ended with a precondition error (no name argument, no
\* resource manager, the instance not fetched, the object list not produced)
\* has issued no resource delete, no instance record delete and no wait, has
\* an empty change set and has logged nothing, in dry-run and in real mode;
\* without a name argument no call at all is issued; and a run that has
\* issued one of those calls had a name argument, fetched the instance
\* successfully with its first call and works on the instance's objects.
C14_PreconditionErrorBeforeAnyMutation ==
    /\ (pc = "done" /\ result \in PreconditionErrors) =>
          /\ MutatingCalls = 0
          /\ cs = <<>>
          /\ log = <<>>
          /\ result = "name is required" => calls = <<>>
          /\ result = "instance get error" => calls = << Call("Get", <<>>, "error") >>
    /\ (runs > 0 /\ nargs < 1) => calls = <<>> /\ pc \in {"checkArgs", "done"}
    /\ MutatingCalls > 0 =>
          /\ ~dryrun
          /\ nargs >= 1
          /\ calls[1] = Call("Get", <<>>, "ok")
          /\ Range(objects) = Range(stored)

C14_Witness ==
    /\ pc = "done"
    /\ result = "instance get error"
    /\ runs = 2
    /\ ~instRecord
    /\ ~dryrun
    /\ Len(stored) >= 2
    /\ MutatingCalls = 0

(***************************************************************************)
(* Further properties of InstanceDryRunDiff (checked under SpecDiff).      *)
(***************************************************************************)
\* the call asks for a detailed diff: withDiff && change.Action == Configured
DetailDue(i) == withDiff /\ calls[i].res = "Configured"

\* the function has returned the error of a failed rendering
RenderFailed == pc = "diffDone" /\ result \in RenderOutcomes \ {"ok"}

\* both calls of the function have returned, each with every desired object
\* classified Unchanged
TwiceUnchanged ==
    /\ pc = "diffDone"
    /\ prevReport.done
    /\ nsExists
    /\ AllUnchanged(log)
    /\ prevReport.unchanged

InitAll == InitDelete \/ InitDiff

NextAll == Next \/ NextDiff

SpecAll == InitAll /\ [][NextAll]_vars

\* the actions a line about an object can carry ("immutable" is the
\* immutable-field conflict)
Actions == {"Created", "Configured", "Unchanged", "Deleted", "immutable"}

\* the lines that assign an action to the object
OutcomesOf(o) == { k \in LinesAbout(o) : log[k].action \in Actions }

\* the objects the run works on
Processed == Range(objects) \cup Range(staleObjects)

\* a dry-run report, a dry-run deletion or the loop of a real deletion has ended
RunEnded ==
    \/ pc = "diffDone"
    \/ pc = "done" /\ dryrun /\ result = "nil"
    \/ pc = "done" /\ LoopFinished

DeleteFailedFor(o) ==
    \E i \in 1..Len(DeleteCalls) : DeleteCalls[i].objs = <<o>> /\ DeleteCalls[i].res = "error"

DiffFailedFor(o) ==
    \E i \in 1..Len(calls) :
        calls[i].op = "Diff" /\ calls[i].objs = <<o>> /\ calls[i].res = "error"

ChangesOf(o) == { k \in 1..Len(cs) : cs[k].obj = o }

\* C15 (as stated): when a run has ended, every object of the processed list
\* has exactly one line that assigns it an action.
C15_ExactlyOneActionPerObject ==
    RunEnded => \A o \in Processed : Cardinality(OutcomesOf(o)) = 1

\* C15 (amended): no object ever has two lines in the log or two changes in
\* the change set, and a line about an object carries one of the five actions
\* or, for an error of Diff that is no immutable-field error, none.  When a
\* dry-run deletion has returned nil every object has exactly one action;
\* when the loop of a real deletion has ended an object has exactly one
\* action, and one change, unless its delete call failed, and then it has
\* none; when InstanceDryRunDiff has returned nil an object has exactly one
\* action unless its Diff failed with such an error, and then it has one
\* line without an action.
C15_AtMostOneActionPerObject ==
    /\ \A o \in Universe :
          /\ Cardinality(LinesAbout(o)) <= 1
          /\ Cardinality(ChangesOf(o)) <= 1
    /\ \A k \in 1..Len(log) :
          log[k].obj # NoObject => log[k].action \in Actions \cup {""}
    /\ (pc = "done" /\ dryrun /\ result = "nil") =>
          \A o \in Range(objects) : Cardinality(OutcomesOf(o)) = 1
    /\ LoopFinished =>
          \A o \in Range(objects) :
              /\ Cardinality(OutcomesOf(o)) = IF DeleteFailedFor(o) THEN 0 ELSE 1
              /\ Cardinality(ChangesOf(o)) = IF DeleteFailedFor(o) THEN 0 ELSE 1
    /\ (pc = "diffDone" /\ result = "nil") =>
          \A o \in Processed :
              /\ Cardinality(LinesAbout(o)) = 1
              /\ Cardinality(OutcomesOf(o)) = IF DiffFailedFor(o) THEN 0 ELSE 1

C15_Witness ==
    /\ pc = "diffDone"
    /\ result = "nil"
    /\ nsExists
    /\ Len(objects) >= 3
    /\ Len(staleObjects) >= 1
    /\ calls[1].res = "error"
    /\ calls[2].res = "immutable error"
    /\ calls[3].res = "Configured"
    /\ Cardinality(OutcomesOf(objects[1])) = 0
    /\ Cardinality(OutcomesOf(objects[2])) = 1

\* the real run in progress issued one delete call for every object of the
\* instance and none of them failed
EveryObjectDeletedCleanly ==
    /\ ~dryrun
    /\ Len(DeleteCalls) = Len(stored)
    /\ \A o \in Range(stored) : DeleteCallsTo(o) = 1
    /\ ~SomeDeleteFailed

\* the instance record goes away only in the iStorage.Delete step of such a run
RecordRemovedOnlyAfterCleanRun ==
    (instRecord /\ ~instRecord') =>
        /\ pc = "deleteInstance"
        /\ EveryObjectDeletedCleanly

\* the run in progress follows one that ended in os.Exit(1), and it has
\* fetched the instance record
RerunFetched ==
    /\ prevFailed
    /\ Len(calls) > 0
    /\ calls[1] = Call("Get", <<>>, "ok")

\* C16: the instance record exists before the first run and is removed only
\* by a real run that issued a delete call for every object of the instance
\* with no call failing; while a run has a failed delete call, and after it
\* ended in os.Exit(1), the record is still there, so that the next run can
\* fetch it, and when that run's loop has ended it has issued a delete call
\* for every object of the instance again.
C16_RecordAbsentOnlyAfterCleanRun ==
    /\ [] (runs = 0 => instRecord)
    /\ [] (SomeDeleteFailed => instRecord)
    /\ [] ((pc = "done" /\ result = "exit(1)") => instRecord /\ SomeDeleteFailed)
    /\ [] (prevFailed /\ pc \in {"checkArgs", "newResourceManager", "getInstance"}
              => instRecord)
    /\ [] (RerunFetched /\ pc \notin {"listObjects", "done"} => objects # <<>>)
    /\ [] (RerunFetched /\ LoopFinished =>
              \A o \in Range(stored) : DeleteCallsTo(o) = 1)
    /\ [][RecordRemovedOnlyAfterCleanRun]_vars

C16_Witness ==
    /\ runs = 2
    /\ RerunFetched
    /\ pc = "done"
    /\ result = "nil"
    /\ ~instRecord
    /\ Len(stored) >= 2
    /\ live = {}
    /\ \E i \in 1..Len(DeleteCalls) : DeleteCalls[i].res = "Unchanged"
    /\ \E i \in 1..Len(DeleteCalls) : DeleteCalls[i].res = "Deleted"

IsSuccess(call) == call.res # "error"

\* the changes of the delete calls that have succeeded so far, in call order
SucceededChanges ==
    LET ok == SelectSeq(DeleteCalls, IsSuccess)
    IN  [i \in 1..Len(ok) |-> Change(ok[i].objs[1], ok[i].res)]

IsPrefix(s, t) ==
    /\ Len(s) <= Len(t)
    /\ \A i \in 1..Len(s) : s[i] = t[i]

\* the position of o in the slice objects
PositionOf(o) == CHOOSE i \in 1..Len(objects) : objects[i] = o

\* within one run, cs only grows at its end
ChangeSetAppendOnly == (runs' = runs) => IsPrefix(cs, cs')

\* a step that issues a call that fails leaves cs as it was
FailedCallKeepsChangeSet ==
    (Len(calls') = Len(calls) + 1 /\ calls'[Len(calls')].res = "error") => cs' = cs

\* C17: at every point of a run cs is the sequence of the changes of the
\* delete calls that have succeeded so far, in the order of the deletion
\* loop, and a step of the run only appends to it: a failed delete call,
\* also one that fails because the deadline has passed, leaves cs as it was.
C17_ChangeSetAppendOnlyInOrder ==
    /\ [] (cs = SucceededChanges)
    /\ [] (\A i, j \in 1..Len(cs) :
              i < j => PositionOf(cs[i].obj) < PositionOf(cs[j].obj))
    /\ [][ChangeSetAppendOnly]_vars
    /\ [][FailedCallKeepsChangeSet]_vars

C17_Witness ==
    /\ pc = "done"
    /\ result = "exit(1)"
    /\ Len(objects) >= 3
    /\ now >= Timeout
    /\ DeleteCalls[1].res = "Deleted"
    /\ DeleteCalls[2].res = "Unchanged"
    /\ DeleteCalls[3].res = "error"
    /\ cs = << Change(objects[1], "Deleted"), Change(objects[2], "Unchanged") >>

WaitCalled == CountCalls("WaitForTermination") > 0

\* the wait lasts at most rootArgs.timeout from its own start, and it fails
\* exactly when it lasted that long
WaitBoundedFromItsStart ==
    (pc = "wait") =>
        /\ now' - now <= Timeout
        /\ (calls'[Len(calls')].res = "timeout") <=> (now' - now = Timeout)

InstanceDeleteFailed ==
    \E i \in 1..Len(calls) : calls[i].op = "InstanceDelete" /\ calls[i].res = "error"

\* nothing happens to the cluster or the storage once iStorage.Delete has failed
NothingAfterInstanceDeleteFailed ==
    (InstanceDeleteFailed /\ runs' = runs) => UNCHANGED << storeVars, calls >>

\* C20: when iStorage.Delete fails, every object had a delete call and none
\* of those failed; the command returns that error at once, so the failed
\* call is the last call of the run and WaitForTermination is not called,
\* whatever the wait flag says; the instance record is still there and the
\* objects the run deleted stay deleted.
C20_InstanceDeleteErrorReturnsWithoutWait ==
    /\ [] (InstanceDeleteFailed =>
              /\ pc = "done"
              /\ result = "instance delete error"
              /\ LastCall = Call("InstanceDelete", <<>>, "error")
              /\ CountCalls("InstanceDelete") = 1
              /\ ~WaitCalled
              /\ deletedObjects = <<>>
              /\ EveryObjectDeletedCleanly
              /\ instRecord
              /\ DeletedByCalls \cap live = {})
    /\ [] ((pc = "done" /\ result = "instance delete error") => InstanceDeleteFailed)
    /\ [][NothingAfterInstanceDeleteFailed]_vars

C20_Witness ==
    /\ InstanceDeleteFailed
    /\ pc = "done"
    /\ wait
    /\ Len(stored) >= 2
    /\ DeletedByCalls = Range(stored)
    /\ live = {}
    /\ instRecord
    /\ now < Timeout

====
